---- MODULE Spec2Model ----
(***************************************************************************)
(* Model of agentops/llms/openai.py: the OpenAiProvider that wraps the     *)
(* blocking and asynchronous chat-completion entry points, consults the    *)
(* time-travel (replay) cache, and reconstructs one LLMEvent per call from *)
(* either a complete response or a stream of chunks.                       *)
(*                                                                         *)
(* Python objects are modelled with their identity: a chunk is addressed   *)
(* by (call, index) and lives in `heap`, so that the aliasing between the  *)
(* event's `returns` and the first chunk of a stream is visible.           *)
(* `produced` keeps the value of every chunk as the transport produced it. *)
(***************************************************************************)
EXTENDS Integers, Sequences, FiniteSets, TLC

\* ---------------------------------------------------------------- bounds
\* Invocations in a run (a run with none exercises install and uninstall);
\* fragments the transport produces for the stream of
\* a lone invocation; fragments it produces in total for concurrent ones.
MaxCalls == 2
MaxFrags == 3
MaxConcFrags == 2
\* override() / undo_override() calls in a run that exercises the lifecycle.
MaxOps == 3

Calls == 1..MaxCalls

\* ---------------------------------------------------------------- values
None == "None"
\* A Python str is a sequence of tokens; NoneC is the None of a content field.
NoneC == <<"None">>
Tokens == {"Hi", " there"}
Truthy(s) == s # NoneC /\ s # <<>>
TruthyV(v) == v # None /\ v # ""

NoRef == [t |-> "none", c |-> 0, i |-> 0]
ChunkRef(c, i) == [t |-> "chunk", c |-> c, i |-> i]
RespRef(c) == [t |-> "resp", c |-> c, i |-> 0]
GenRef(c) == [t |-> "generator", c |-> c, i |-> 0]
StrRef(c) == [t |-> "str", c |-> c, i |-> 0]
NotReturned == [t |-> "pending", c |-> 0, i |-> 0]

\* The model name the caller of call c asks for, and the one the transport
\* reports back in its responses and chunks.
RequestedModel(c) == IF c = 1 THEN "gpt-x" ELSE "gpt-y"
ResolvedModel(c) == IF c = 1 THEN "gpt-x-0613" ELSE "gpt-y-0613"

\* Keyword arguments: a dict, modelled as a set of <<name, value>> pairs.
Has(kw, k) == \E p \in kw : p[1] = k
Get(kw, k) == (CHOOSE p \in kw : p[1] = k)[2]
\* Variant: the key is read and left in the dict.
Del_Keeps(kw, k) == kw
\* del kwargs[k]
Del(kw, k) == { p \in kw : p[1] # k }
NoKwargs == {}
SessionOf(c) == IF c = 1 THEN "s1" ELSE "s2"
\* What a caller may pass: model always, messages and session optionally.
AllKwargs(c) ==
  { {<<"model", RequestedModel(c)>>} \cup ms \cup ss :
      ms \in { {}, {<<"messages", "msgs">>} },
      ss \in { {}, {<<"session", SessionOf(c)>>} } }
CoreKwargs(c) ==
  { {<<"model", RequestedModel(c)>>, <<"messages", "msgs">>,
     <<"session", SessionOf(c)>>} }

\* ---------------------------------------------------------------- chunks
\* ChatCompletionChunk: choices is 0 (an empty list) or 1; the delta and the
\* finish_reason are those of choices[0].
Chunk(ch, m, co, ro, tc, fc, fin) ==
  [choices |-> ch, model |-> m, content |-> co, role |-> ro,
   tool_calls |-> tc, function_call |-> fc, finish_reason |-> fin]

TextChunks(c) ==
  { Chunk(1, ResolvedModel(c), co, None, None, None, fin) :
      co \in {NoneC, <<>>, <<"Hi">>, <<" there">>}, fin \in {None, "stop"} }
RoleChunks(c) ==
  { Chunk(1, ResolvedModel(c), co, "assistant", None, None, None) :
      co \in {NoneC, <<>>} }
ToolChunks(c) ==
  { Chunk(1, ResolvedModel(c), NoneC, None, "tc", None, None),
    Chunk(1, ResolvedModel(c), NoneC, None, None, "fc", None) }
\* A chunk whose choices list is empty: chunk.choices[0] raises IndexError.
MalformedChunk(c) == Chunk(0, ResolvedModel(c), NoneC, None, None, None, None)
AllFragments(c) ==
  TextChunks(c) \cup RoleChunks(c) \cup ToolChunks(c) \cup {MalformedChunk(c)}
\* The fragments of an ordinary stream, and the malformed one.
CoreFragments(c) ==
  { Chunk(1, ResolvedModel(c), <<>>, "assistant", None, None, None),
    Chunk(1, ResolvedModel(c), <<"Hi">>, None, None, None, None),
    Chunk(1, ResolvedModel(c), <<" there">>, None, None, None, "stop"),
    Chunk(1, ResolvedModel(c), NoneC, None, None, None, "stop"),
    MalformedChunk(c) }

\* ---------------------------------------------------------------- responses
\* A non-streamed object handed to handle_response. usage = FALSE is
\* usage None, choices = 0 is an empty choices list.
Message == [role |-> "assistant", content |-> <<"Hi">>,
            function_call |-> None, tool_calls |-> None]
Response(ty, us, ch, c) ==
  [type |-> ty, usage |-> us, prompt_tokens |-> 3, completion_tokens |-> 5,
   choices |-> ch, model |-> ResolvedModel(c)]
NoResponse == [type |-> "none", usage |-> FALSE, prompt_tokens |-> 0,
               completion_tokens |-> 0, choices |-> 0, model |-> None]
StreamHandle(c) == Response("Stream", FALSE, 0, c)
AllResponses(c) ==
  { Response("ChatCompletion", us, ch, c) : us \in BOOLEAN, ch \in {0, 1} }
  \cup {StreamHandle(c)}
CoreResponses(c) == {Response("ChatCompletion", TRUE, 1, c), StreamHandle(c)}

\* A cached payload is serialized JSON of one of three shapes.
Payload(sh, us, ch) == [shape |-> sh, usage |-> us, choices |-> ch]
NoPayload == Payload("miss", FALSE, 0)
AllPayloads ==
  { Payload(sh, us, ch) : sh \in {"completion", "chunk"}, us \in BOOLEAN,
                           ch \in {0, 1} }
  \cup {Payload("neither", FALSE, 0)}
CorePayloads == {Payload("completion", TRUE, 1)}

\* pydantic_model.model_validate_json(completion_override): the typed object,
\* or NoResponse when validation raises.
model_validate_json(pydantic_model, p, c) ==
  IF pydantic_model = "ChatCompletion" /\ p.shape = "completion"
    THEN Response("ChatCompletion", p.usage, p.choices, c)
  ELSE IF pydantic_model = "ChatCompletionChunk" /\ p.shape = "chunk"
    THEN Response("ChatCompletionChunk", p.usage, p.choices, c)
  ELSE NoResponse

pydantic_models == <<"ChatCompletion", "ChatCompletionChunk">>

\* The loop over pydantic_models: the first model that validates wins.
RECURSIVE result_model(_, _, _)
result_model(i, p, c) ==
  IF i > Len(pydantic_models) THEN NoResponse
  ELSE LET r == model_validate_json(pydantic_models[i], p, c)
       IN IF r # NoResponse THEN r ELSE result_model(i + 1, p, c)

\* ---------------------------------------------------------------- events
NoCompletion == [role |-> "unset", content |-> NoneC,
                 function_call |-> "unset", tool_calls |-> "unset"]
\* LLMEvent(init_timestamp=init_timestamp, params=kwargs)
LLMEvent(init_timestamp, params) ==
  [created |-> TRUE, init_timestamp |-> init_timestamp, params |-> params,
   session_id |-> None, returns |-> NoRef, agent_id |-> None, model |-> None,
   prompt |-> None, prompt_tokens |-> 0, completion |-> NoCompletion,
   completion_tokens |-> 0, end_timestamp |-> None]
NoEvent == [LLMEvent(None, NoKwargs) EXCEPT !.created = FALSE]

\* ---------------------------------------------------------------- entry points
\* A value of Completions.create / AsyncCompletions.create or of a saved
\* reference: the library's own function, the patched_function closure made
\* by the n-th override(), or None.
OriginalCreate == [t |-> "original", k |-> "sync", n |-> 0]
OriginalCreateAsync == [t |-> "original", k |-> "async", n |-> 0]
Patched(k, n) == [t |-> "patched", k |-> k, n |-> n]
Absent == [t |-> "None", k |-> "None", n |-> 0]

check_call_stack_for_agent_id == "agent"
get_ISO_time == "now"

\* ---------------------------------------------------------------- state
VARIABLES
  create,                 \* completions.Completions.create
  create_async,           \* completions.AsyncCompletions.create
  original_create,        \* self.original_create
  original_create_async,  \* self.original_create_async
  history,     \* the override() / undo_override() calls made, in order
  ncalls,      \* how many invocations the run has
  pc,          \* per call: idle, calling, streaming, done, raised
  kind,        \* per call: "sync" (Completions.create) or "async"
  callerKw,    \* per call: the kwargs as the caller passed them
  kwargs,      \* per call: the kwargs dict after the session key is deleted
  session,     \* per call: the local `session` of patched_function
  lookup,      \* per call: what the time-travel cache returned
  lookupArgs,  \* per call: the kwargs given to the cache lookup
  origCalls,   \* per call: how often the original entry point was invoked
  origArgs,    \* per call: the kwargs the original entry point received
  result,      \* per call: the object handed to handle_response
  ret,         \* per call: the value the wrapper returned to the caller
  produced,    \* per call: the chunks of the stream as the transport made them
  heap,        \* per call: the current field values of those chunk objects
  yielded,     \* per call: the chunks the generator yielded, with their values
  events,      \* the LLMEvent created by each call's handle_response
  llm_event,   \* the provider's self.llm_event: the id of the current event
  sink,        \* everything passed to _safe_record, in order
  log          \* logger.warning / logger.error calls, in order

hookVars == <<create, create_async, original_create, original_create_async,
              history>>

vars == <<hookVars, ncalls, pc, kind, callerKw, kwargs, session, lookup, lookupArgs, origCalls,
          origArgs, result, ret, produced, heap, yielded, events, llm_event,
          sink, log>>

callVars == <<hookVars, ncalls, kind, callerKw, kwargs, session, lookup, lookupArgs>>
streamVars == <<produced, heap, yielded>>

\* A run with one invocation draws its inputs from the full sets; a run with
\* concurrent invocations draws them from the core sets.
CallerKwargs(c) == IF ncalls = 1 THEN AllKwargs(c) ELSE CoreKwargs(c)
Payloads == IF ncalls = 1 THEN AllPayloads ELSE CorePayloads
LiveResponses(c) == IF ncalls = 1 THEN AllResponses(c) ELSE CoreResponses(c)
Fragments(c) == IF ncalls = 1 THEN AllFragments(c) ELSE CoreFragments(c)

FragBudget == IF ncalls = 1 THEN MaxFrags ELSE MaxConcFrags

Init ==
  /\ create = OriginalCreate
  /\ create_async = OriginalCreateAsync
  /\ original_create = Absent
  /\ original_create_async = Absent
  /\ history = <<>>
  /\ ncalls \in 0..MaxCalls
  /\ pc = [c \in Calls |-> "idle"]
  /\ kind = [c \in Calls |-> None]
  /\ callerKw = [c \in Calls |-> NoKwargs]
  /\ kwargs = [c \in Calls |-> NoKwargs]
  /\ session = [c \in Calls |-> None]
  /\ lookup = [c \in Calls |-> NoPayload]
  /\ lookupArgs = [c \in Calls |-> NoKwargs]
  /\ origCalls = [c \in Calls |-> 0]
  /\ origArgs = [c \in Calls |-> NoKwargs]
  /\ result = [c \in Calls |-> NoResponse]
  /\ ret = [c \in Calls |-> NotReturned]
  /\ produced = [c \in Calls |-> <<>>]
  /\ heap = [c \in Calls |-> <<>>]
  /\ yielded = [c \in Calls |-> <<>>]
  /\ events = [c \in Calls |-> NoEvent]
  /\ llm_event = 0
  /\ sink = <<>>
  /\ log = <<>>

\* ---------------------------------------------------------------- helpers
NoneRet == [t |-> "None", c |-> 0, i |-> 0]
Deref(hp, r) == hp[r.c][r.i]

\* _safe_record(session, event): the event goes to the session's or to the
\* client's record(); either way it reaches the sink.
SinkEntry(k, e, c, sess, exc, snap) ==
  [kind |-> k, event |-> e, by |-> c, session |-> sess, exception |-> exc,
   snap |-> snap]
_safe_record(snk, entry) == Append(snk, entry)

Outcome(ev, hp, exc, fin) ==
  [ev |-> ev, heap |-> hp, exc |-> exc, finished |-> fin]

\* if self.llm_event.returns == None: self.llm_event.returns = chunk
AdoptSkeleton(ev, cref) ==
  IF ev.returns = NoRef THEN [ev EXCEPT !.returns = cref] ELSE ev

\* accumulated_delta = self.llm_event.returns.choices[0].delta raises when
\* returns is no chunk (a ChatCompletion has message, not delta) or a chunk
\* with an empty choices list.
SkeletonFault(ev, hp, res) ==
  LET R == ev.returns
  IN IF R.t = "chunk"
       THEN IF Deref(hp, R).choices = 0 THEN "IndexError" ELSE None
     ELSE IF R.t = "resp" /\ res[R.c].choices = 0 THEN "IndexError"
     ELSE "AttributeError"

\* The four field rules: content is appended, role, tool_calls and
\* function_call are overwritten when the fragment carries them.
MergeDelta(acc, d) ==
  LET a1 == IF Truthy(d.content)
              THEN [acc EXCEPT !.content = acc.content \o d.content] ELSE acc
      a2 == IF TruthyV(d.role) THEN [a1 EXCEPT !.role = d.role] ELSE a1
      a3 == IF TruthyV(d.tool_calls)
              THEN [a2 EXCEPT !.tool_calls = d.tool_calls] ELSE a2
  IN IF TruthyV(d.function_call)
       THEN [a3 EXCEPT !.function_call = d.function_call] ELSE a3

\* self.llm_event.completion = {...} built from accumulated_delta
CompletionOf(acc) ==
  [role |-> acc.role, content |-> acc.content,
   function_call |-> acc.function_call, tool_calls |-> acc.tool_calls]

\* handle_stream_chunk(chunk) up to the record call: the event and the heap
\* after it, the exception the try block caught (None if none), and whether
\* the finish branch ran.  cref is the chunk, kw the kwargs of the closure.
handle_stream_chunk(ev0, hp, cref, kw, res) ==
  LET ev1 == AdoptSkeleton(ev0, cref)
      R == ev1.returns
      d == Deref(hp, cref)
      f44 == SkeletonFault(ev1, hp, res)
      ev2 == [ev1 EXCEPT !.agent_id = check_call_stack_for_agent_id,
                         !.model = d.model]
      ev3 == [ev2 EXCEPT !.prompt = Get(kw, "messages")]
  IN IF f44 # None THEN Outcome(ev1, hp, f44, FALSE)
     ELSE IF ~Has(kw, "messages") THEN Outcome(ev2, hp, "KeyError", FALSE)
     ELSE IF d.choices = 0 THEN Outcome(ev3, hp, "IndexError", FALSE)
     ELSE IF Truthy(d.content) /\ Deref(hp, R).content = NoneC
       THEN Outcome(ev3, hp, "TypeError", FALSE)
     ELSE
       LET acc == MergeDelta(Deref(hp, R), d)
           fin == TruthyV(d.finish_reason)
           skel == IF fin THEN [acc EXCEPT !.finish_reason = d.finish_reason]
                   ELSE acc
           ev4 == IF fin
                    THEN [ev3 EXCEPT !.completion = CompletionOf(acc),
                                     !.end_timestamp = get_ISO_time]
                  ELSE ev3
       IN Outcome(ev4, [hp EXCEPT ![R.c][R.i] = skel], None, fin)

\* Variant: the two token counts are taken from each other's usage field.
ExtractResponse_SwappedTokens(ev0, resp, c, kw) ==
  LET ev1 == [ev0 EXCEPT !.returns = RespRef(c),
                         !.agent_id = check_call_stack_for_agent_id]
      ev2 == [ev1 EXCEPT !.prompt = Get(kw, "messages")]
      ev3 == [ev2 EXCEPT !.prompt_tokens = resp.completion_tokens]
      ev4 == [ev3 EXCEPT !.completion = Message]
      ev5 == [ev4 EXCEPT !.completion_tokens = resp.prompt_tokens,
                         !.model = resp.model]
  IN IF ~Has(kw, "messages") THEN [ev |-> ev1, exc |-> "KeyError"]
     ELSE IF ~resp.usage THEN [ev |-> ev2, exc |-> "AttributeError"]
     ELSE IF resp.choices = 0 THEN [ev |-> ev3, exc |-> "IndexError"]
     ELSE IF resp.type # "ChatCompletion"
       THEN [ev |-> ev3, exc |-> "AttributeError"]
     ELSE [ev |-> ev5, exc |-> None]

\* The try block of the non-streaming path: the fields are assigned in source
\* order and the first fault leaves the event partially built.
ExtractResponse(ev0, resp, c, kw) ==
  LET ev1 == [ev0 EXCEPT !.returns = RespRef(c),
                         !.agent_id = check_call_stack_for_agent_id]
      ev2 == [ev1 EXCEPT !.prompt = Get(kw, "messages")]
      ev3 == [ev2 EXCEPT !.prompt_tokens = resp.prompt_tokens]
      ev4 == [ev3 EXCEPT !.completion = Message]
      ev5 == [ev4 EXCEPT !.completion_tokens = resp.completion_tokens,
                         !.model = resp.model]
  IN IF ~Has(kw, "messages") THEN [ev |-> ev1, exc |-> "KeyError"]
     ELSE IF ~resp.usage THEN [ev |-> ev2, exc |-> "AttributeError"]
     ELSE IF resp.choices = 0 THEN [ev |-> ev3, exc |-> "IndexError"]
     ELSE IF resp.type # "ChatCompletion"
       THEN [ev |-> ev3, exc |-> "AttributeError"]
     ELSE [ev |-> ev5, exc |-> None]

\* Variant: the event is recorded for every fragment that merged, the
\* finish_reason test left out.
RecordChunk_NoFinishGuard(snk, o, e, c, sess) ==
  IF o.exc # None
    THEN _safe_record(snk, SinkEntry("ErrorEvent", e, c, sess, o.exc, o.ev))
  ELSE _safe_record(snk, SinkEntry("LLMEvent", e, c, sess, None, o.ev))

\* The record calls of handle_stream_chunk: the event in the finish branch,
\* an ErrorEvent in the except block, nothing otherwise.  e is the event
\* self.llm_event names, c the invocation whose generator runs.
RecordChunk(snk, o, e, c, sess) ==
  IF o.exc # None
    THEN _safe_record(snk, SinkEntry("ErrorEvent", e, c, sess, o.exc, o.ev))
  ELSE IF o.finished
    THEN _safe_record(snk, SinkEntry("LLMEvent", e, c, sess, None, o.ev))
  ELSE snk

\* Variant: the event is recorded after the try statement instead of at the
\* end of the try block, so a fault records the ErrorEvent and the event.
RecordResponse_AfterTry(snk, x, c, sess) ==
  LET s1 == IF x.exc = None THEN snk
            ELSE _safe_record(snk,
                   SinkEntry("ErrorEvent", c, c, sess, x.exc, x.ev))
  IN _safe_record(s1, SinkEntry("LLMEvent", c, c, sess, None, x.ev))

\* The record calls of the non-streaming path: the event at the end of the
\* try block, or an ErrorEvent in the except block.
RecordResponse(snk, x, c, sess) ==
  IF x.exc = None
    THEN _safe_record(snk, SinkEntry("LLMEvent", c, c, sess, None, x.ev))
  ELSE _safe_record(snk, SinkEntry("ErrorEvent", c, c, sess, x.exc, x.ev))

\* What handle_response returns on the non-streaming path: `response`, which
\* the except block rebinds to pprint.pformat(response).
ReturnedResponse(exc, c) == IF exc = None THEN RespRef(c) ELSE StrRef(c)

\* Variant: the except block's rebinding of `chunk` reaches the yield.
YieldedChunk_Rebound(exc, c, i) ==
  IF exc # None THEN StrRef(c) ELSE ChunkRef(c, i)

\* What the generator yields after handle_stream_chunk(chunk): its own
\* `chunk`, which the handler's rebinding of its parameter does not touch.
YieldedChunk(exc, c, i) == ChunkRef(c, i)

IsStream(resp) == resp.type \in {"Stream", "AsyncStream", "AsyncCompletions"}

\* ---------------------------------------------------------------- actions
\* handle_response(response, kwargs, init_timestamp, session): a new LLMEvent
\* replaces self.llm_event; a stream is wrapped in a generator, any other
\* object goes through the extraction and is recorded.
handle_response(c, resp, kw, sess) ==
  LET ev0 == LLMEvent(get_ISO_time, kw)
      ev1 == IF sess # None THEN [ev0 EXCEPT !.session_id = sess] ELSE ev0
      x == ExtractResponse(ev1, resp, c, kw)
  IN /\ llm_event' = c
     /\ result' = [result EXCEPT ![c] = resp]
     /\ IF IsStream(resp)
          THEN /\ events' = [events EXCEPT ![c] = ev1]
               /\ ret' = [ret EXCEPT ![c] = GenRef(c)]
               /\ pc' = [pc EXCEPT ![c] = "streaming"]
               /\ UNCHANGED <<sink, log>>
        ELSE /\ events' = [events EXCEPT ![c] = x.ev]
             /\ sink' = RecordResponse(sink, x, c, sess)
             /\ log' = IF x.exc = None THEN log
                       ELSE Append(log, [level |-> "warning", by |-> c])
             /\ ret' = [ret EXCEPT ![c] = ReturnedResponse(x.exc, c)]
             /\ pc' = [pc EXCEPT ![c] = "done"]

\* The entry point a caller of kind k reaches.
EntryPoint(k) == IF k = "sync" THEN create ELSE create_async

\* _undo_override_completion: the value assigned to Completions.create.
_undo_override_completion(oc, oca) == oc

\* Variant: the async undo restores the reference saved for the blocking
\* entry point.
_undo_override_async_completion_SyncRef(oc, oca) == oc

\* _undo_override_async_completion: the value assigned to
\* AsyncCompletions.create.
_undo_override_async_completion(oc, oca) == oca

\* Installs and uninstalls so far.
NumOverrides == Cardinality({ i \in DOMAIN history : history[i].op = "override" })
Uninstrumented == create = OriginalCreate /\ create_async = OriginalCreateAsync

\* override(): each half saves whatever the entry point currently is and
\* replaces it by a new patched_function.  A run that makes invocations
\* installs once, before the first of them.
override ==
  /\ \A c \in Calls : pc[c] = "idle"
  /\ Len(history) < (IF ncalls = 0 THEN MaxOps ELSE 1)
  /\ original_create' = create
  /\ create' = Patched("sync", NumOverrides + 1)
  /\ original_create_async' = create_async
  /\ create_async' = Patched("async", NumOverrides + 1)
  /\ history' = Append(history, [op |-> "override", clean |-> Uninstrumented])
  /\ UNCHANGED <<ncalls, pc, kind, callerKw, kwargs, session, lookup,
                 lookupArgs, origCalls, origArgs, result, ret, streamVars,
                 events, llm_event, sink, log>>

\* undo_override(): both entry points are set to the saved references.
undo_override ==
  /\ ncalls = 0
  /\ Len(history) < MaxOps
  /\ create' = _undo_override_completion(original_create, original_create_async)
  /\ create_async' = _undo_override_async_completion(original_create,
                                                     original_create_async)
  /\ history' = Append(history, [op |-> "undo_override", clean |-> Uninstrumented])
  /\ UNCHANGED <<original_create, original_create_async, ncalls, pc, kind,
                 callerKw, kwargs, session, lookup, lookupArgs, origCalls,
                 origArgs, result, ret, streamVars, events, llm_event, sink,
                 log>>

\* patched_function up to the replay decision (both wrappers share this
\* code): the session key is removed, the cache is consulted, and a hit is
\* validated and reconstructed without calling the original.
Entry(c, k, kw, p) ==
  /\ pc[c] = "idle"
  /\ c <= ncalls
  /\ EntryPoint(k).t = "patched"
  /\ \A b \in Calls : b < c => pc[b] # "idle"
  /\ kind' = [kind EXCEPT ![c] = k]
  /\ callerKw' = [callerKw EXCEPT ![c] = kw]
  /\ session' = [session EXCEPT
                   ![c] = IF Has(kw, "session") THEN Get(kw, "session") ELSE None]
  /\ kwargs' = [kwargs EXCEPT ![c] = Del(kw, "session")]
  /\ lookupArgs' = [lookupArgs EXCEPT ![c] = kwargs'[c]]
  /\ lookup' = [lookup EXCEPT ![c] = p]

PatchedMiss(c, k, kw) ==
  /\ Entry(c, k, kw, NoPayload)
  /\ pc' = [pc EXCEPT ![c] = "calling"]
  /\ UNCHANGED <<hookVars, ncalls, origCalls, origArgs, result, ret, streamVars, events,
                 llm_event, sink, log>>

\* Variant: a payload that validates as neither model falls through to the
\* live call.
PatchedReplayInvalid_FallsThrough(c, k, kw, p) ==
  /\ Entry(c, k, kw, p)
  /\ result_model(1, p, c) = NoResponse
  /\ pc' = [pc EXCEPT ![c] = "calling"]
  /\ UNCHANGED <<hookVars, ncalls, origCalls, origArgs, result, ret, streamVars, events,
                 llm_event, sink, log>>

\* The replay hit whose payload validates as neither model: logger.error,
\* return None.
PatchedReplayInvalid(c, k, kw, p) ==
  /\ Entry(c, k, kw, p)
  /\ result_model(1, p, c) = NoResponse
  /\ log' = Append(log, [level |-> "error", by |-> c])
  /\ ret' = [ret EXCEPT ![c] = NoneRet]
  /\ pc' = [pc EXCEPT ![c] = "done"]
  /\ UNCHANGED <<hookVars, ncalls, origCalls, origArgs, result, streamVars, events,
                 llm_event, sink>>

\* Variant: a replay hit invokes the original entry point as well.
PatchedReplay_CallsOriginal(c, k, kw, p) ==
  /\ Entry(c, k, kw, p)
  /\ result_model(1, p, c) # NoResponse
  /\ origCalls' = [origCalls EXCEPT ![c] = @ + 1]
  /\ origArgs' = [origArgs EXCEPT ![c] = kwargs'[c]]
  /\ handle_response(c, result_model(1, p, c), kwargs'[c], session'[c])
  /\ UNCHANGED <<hookVars, ncalls, streamVars>>

\* The replay hit whose payload validates: handle_response on the typed
\* object, the original entry point left alone.
PatchedReplay(c, k, kw, p) ==
  /\ Entry(c, k, kw, p)
  /\ result_model(1, p, c) # NoResponse
  /\ handle_response(c, result_model(1, p, c), kwargs'[c], session'[c])
  /\ UNCHANGED <<hookVars, ncalls, origCalls, origArgs, streamVars>>

\* result = self.original_create(*args, **kwargs), then handle_response.
\* The transport serves a request that carries messages.
OriginalReturns(c, resp) ==
  /\ pc[c] = "calling"
  /\ kind[c] = "sync"
  /\ Has(kwargs[c], "messages")
  /\ origCalls' = [origCalls EXCEPT ![c] = @ + 1]
  /\ origArgs' = [origArgs EXCEPT ![c] = kwargs[c]]
  /\ handle_response(c, resp, kwargs[c], session[c])
  /\ UNCHANGED <<callVars, streamVars>>

\* The original entry point raises (a request the transport rejects, a
\* network failure): the fault passes through patched_function.
OriginalRaises(c) ==
  /\ pc[c] = "calling"
  /\ kind[c] = "sync"
  /\ origCalls' = [origCalls EXCEPT ![c] = @ + 1]
  /\ origArgs' = [origArgs EXCEPT ![c] = kwargs[c]]
  /\ pc' = [pc EXCEPT ![c] = "raised"]
  /\ ret' = [ret EXCEPT ![c] = [t |-> "fault", c |-> c, i |-> 0]]
  /\ UNCHANGED <<callVars, result, streamVars, events, llm_event, sink, log>>

\* result = await original_create_async(*args, **kwargs): the name is bound
\* in no scope of the async patched_function, so evaluating it raises
\* NameError before anything is called.
AsyncOriginalNameError(c) ==
  /\ pc[c] = "calling"
  /\ kind[c] = "async"
  /\ pc' = [pc EXCEPT ![c] = "raised"]
  /\ ret' = [ret EXCEPT ![c] = [t |-> "NameError", c |-> c, i |-> 0]]
  /\ UNCHANGED <<callVars, origCalls, origArgs, result, streamVars, events,
                 llm_event, sink, log>>

FragsProduced == LET F[c \in 0..MaxCalls] ==
                       IF c = 0 THEN 0 ELSE F[c - 1] + Len(produced[c])
                 IN F[MaxCalls]

\* One iteration of generator(): the transport produces the next chunk,
\* handle_stream_chunk(chunk) runs against self.llm_event, the chunk is
\* yielded.
Pull(c, f) ==
  /\ pc[c] = "streaming"
  /\ FragsProduced < FragBudget
  /\ LET i == Len(produced[c]) + 1
         hp0 == [heap EXCEPT ![c] = Append(@, f)]
         e == llm_event
         o == handle_stream_chunk(events[e], hp0, ChunkRef(c, i), kwargs[c],
                                  result)
         y == YieldedChunk(o.exc, c, i)
     IN /\ produced' = [produced EXCEPT ![c] = Append(@, f)]
        /\ heap' = o.heap
        /\ events' = [events EXCEPT ![e] = o.ev]
        /\ sink' = RecordChunk(sink, o, e, c, session[c])
        /\ log' = IF o.exc # None
                    THEN Append(log, [level |-> "warning", by |-> c]) ELSE log
        /\ yielded' = [yielded EXCEPT
                         ![c] = Append(@, [ref |-> y,
                                           val |-> IF y.t = "chunk"
                                                     THEN Deref(o.heap, y)
                                                   ELSE f])]
  /\ UNCHANGED <<pc, callVars, origCalls, origArgs, result, ret, llm_event>>

\* The upstream stream is exhausted: the for loop and the generator end.
\* A caller that stops pulling earlier leaves the call in "streaming": there
\* is no cancellation primitive, nothing runs when a generator is dropped.
StreamEnd(c) ==
  /\ pc[c] = "streaming"
  /\ pc' = [pc EXCEPT ![c] = "done"]
  /\ UNCHANGED <<callVars, origCalls, origArgs, result, ret, streamVars,
                 events, llm_event, sink, log>>

Kinds == {"sync", "async"}

Next ==
  \/ override
  \/ undo_override
  \/ \E c \in Calls, k \in Kinds : \E kw \in CallerKwargs(c) : PatchedMiss(c, k, kw)
  \/ \E c \in Calls, k \in Kinds, p \in Payloads : \E kw \in CallerKwargs(c) :
       PatchedReplayInvalid(c, k, kw, p)
  \/ \E c \in Calls, k \in Kinds, p \in Payloads : \E kw \in CallerKwargs(c) :
       PatchedReplay(c, k, kw, p)
  \/ \E c \in Calls : \E resp \in LiveResponses(c) : OriginalReturns(c, resp)
  \/ \E c \in Calls : OriginalRaises(c)
  \/ \E c \in Calls : AsyncOriginalNameError(c)
  \/ \E c \in Calls : \E f \in Fragments(c) : Pull(c, f)
  \/ \E c \in Calls : StreamEnd(c)

Spec == Init /\ [][Next]_vars

\* ---------------------------------------------------------------- observers
\* The sink entries the reconstruction of invocation c sent.
EntriesBy(k, c) == { j \in DOMAIN sink : sink[j].kind = k /\ sink[j].by = c }
NumLLM(c) == Cardinality(EntriesBy("LLMEvent", c))
NumErr(c) == Cardinality(EntriesBy("ErrorEvent", c))

Streamed(c) == IsStream(result[c])
NonStreamed(c) == result[c] # NoResponse /\ ~IsStream(result[c])

FinishMarked(f) == f.choices = 1 /\ TruthyV(f.finish_reason)
NumFinish(seq) == Cardinality({ i \in DOMAIN seq : FinishMarked(seq[i]) })
NumMalformed(seq) == Cardinality({ i \in DOMAIN seq : seq[i].choices = 0 })

\* The concatenation of the content deltas of a fragment sequence, in order.
RECURSIVE ConcatContent(_)
ConcatContent(seq) ==
  IF seq = <<>> THEN <<>>
  ELSE (IF Truthy(Head(seq).content) THEN Head(seq).content ELSE <<>>)
       \o ConcatContent(Tail(seq))

\* The text of a content field: None reads as the empty text.
Text(co) == IF co = NoneC THEN <<>> ELSE co

\* Every fragment has a choice and the last one, and only it, is finish-marked.
WellFormed(seq) ==
  /\ Len(seq) >= 1
  /\ NumMalformed(seq) = 0
  /\ NumFinish(seq) = 1
  /\ FinishMarked(seq[Len(seq)])

\* ---------------------------------------------------------------- claims
Returned(c) == pc[c] = "done"

C2_ContentIsConcatenation ==
  \A c \in Calls :
    (Returned(c) /\ Streamed(c) /\ WellFormed(produced[c])) =>
      /\ NumLLM(c) = 1
      /\ \A j \in EntriesBy("LLMEvent", c) :
           /\ Text(sink[j].snap.completion.content) = ConcatContent(produced[c])
           /\ sink[j].snap.completion.role = "assistant"
                <=> \E i \in DOMAIN produced[c] : produced[c][i].role = "assistant"

\* C3: reconstruction state is per invocation: the event a fragment of
\* invocation c is merged into and recorded from is the event of c, so every
\* recorded CompletionEvent carries the parameters, model and content of the
\* invocation whose stream produced it.
C3_EventOwnedByItsInvocation ==
  \A j \in DOMAIN sink :
    LET c == sink[j].by
    IN sink[j].kind = "LLMEvent" =>
         /\ sink[j].event = c
         /\ sink[j].snap.params = kwargs[c]
         /\ sink[j].snap.session_id = session[c]
         /\ sink[j].snap.model = ResolvedModel(c)
         /\ sink[j].snap.returns.c = c

\* C4: a non-streamed reconstruction whose extraction faulted (missing
\* usage, zero choices, wrong shape) sent exactly one ErrorEvent referencing
\* the partially built event and returned the original response object to
\* the caller.
C4_FaultReturnsOriginalResponse ==
  \A c \in Calls :
    (/\ NonStreamed(c)
     /\ \E j \in EntriesBy("ErrorEvent", c) :
          sink[j].exception \in {"AttributeError", "IndexError"}) =>
      /\ NumErr(c) = 1 /\ NumLLM(c) = 0
      /\ \A j \in EntriesBy("ErrorEvent", c) : sink[j].event = c
      /\ pc[c] = "done"
      /\ ret[c] = RespRef(c)

\* C5: on a cache miss, for both wrappers, the original entry point was
\* invoked exactly once with the session-stripped parameters, its result went
\* to the reconstructor and back to the caller, and the wrapper raised no
\* fault of its own.
C5_MissCallsOriginalOnce ==
  \A c \in Calls :
    (lookup[c] = NoPayload /\ pc[c] \notin {"idle", "calling"}) =>
      /\ origCalls[c] = 1
      /\ origArgs[c] = Del(callerKw[c], "session")
      /\ ret[c].t # "NameError"
      /\ ret[c].t # "fault" =>
           /\ result[c] # NoResponse
           /\ ret[c] \in {RespRef(c), GenRef(c)}

\* C6: the wrapped stream yields the same fragment objects as the upstream
\* sequence, in the same order and number: nothing dropped, duplicated,
\* reordered or replaced, and a merge fault does not end the sequence.
C6_YieldsUpstreamSequence ==
  \A c \in Calls :
    /\ Len(yielded[c]) = Len(produced[c])
    /\ \A i \in DOMAIN yielded[c] : yielded[c][i].ref = ChunkRef(c, i)
    /\ (Streamed(c) /\ NumErr(c) > 0) => pc[c] \in {"streaming", "done"}

\* A fully consumed stream with a faulting fragment followed by another one.
C6_Witness ==
  \E c \in Calls :
    /\ Returned(c) /\ Streamed(c)
    /\ Len(yielded[c]) >= 2
    /\ produced[c][Len(produced[c]) - 1].choices = 0
    /\ NumErr(c) >= 1

\* C7: every fragment reaches the caller with the field values the transport
\* produced, and no delivered fragment is altered afterwards.
C7_FragmentsUnmodified ==
  \A c \in Calls :
    \A i \in DOMAIN yielded[c] :
      /\ yielded[c][i].val = produced[c][i]
      /\ heap[c][i] = produced[c][i]

\* One malformed fragment strictly inside an otherwise well-formed sequence.
MalformedInMiddle(seq) ==
  /\ Len(seq) >= 3
  /\ NumMalformed(seq) = 1
  /\ seq[1].choices = 1
  /\ NumFinish(seq) = 1
  /\ FinishMarked(seq[Len(seq)])

\* C8: a fully consumed stream with one malformed fragment in the middle sent
\* exactly one ErrorEvent and one CompletionEvent whose content is the
\* concatenation of the content deltas of the well-formed fragments.
C8_MalformedMiddleIsolated ==
  \A c \in Calls :
    (Returned(c) /\ Streamed(c) /\ MalformedInMiddle(produced[c])) =>
      /\ NumErr(c) = 1
      /\ NumLLM(c) = 1
      /\ Len(yielded[c]) = Len(produced[c])
      /\ \A j \in EntriesBy("LLMEvent", c) :
           Text(sink[j].snap.completion.content) = ConcatContent(produced[c])

\* C9: a non-streamed live response with valid usage and choices[0].message
\* was recorded as exactly one CompletionEvent, and no ErrorEvent, carrying
\* the response's token counts and model, and the response itself was
\* returned.
C9_ValidResponseRecordedOnce ==
  \A c \in Calls :
    (/\ lookup[c] = NoPayload
     /\ result[c].type = "ChatCompletion"
     /\ result[c].usage /\ result[c].choices = 1) =>
      /\ NumLLM(c) = 1 /\ NumErr(c) = 0
      /\ \A j \in EntriesBy("LLMEvent", c) :
           /\ sink[j].snap.prompt_tokens = result[c].prompt_tokens
           /\ sink[j].snap.completion_tokens = result[c].completion_tokens
           /\ sink[j].snap.model = result[c].model
           /\ sink[j].snap.returns = RespRef(c)
      /\ ret[c] = RespRef(c)
      /\ pc[c] = "done"

C9_Witness ==
  \E c \in Calls :
    /\ lookup[c] = NoPayload /\ kind[c] = "sync"
    /\ result[c].type = "ChatCompletion"
    /\ result[c].usage /\ result[c].choices = 1
    /\ NumLLM(c) = 1 /\ ret[c] = RespRef(c)

\* C10: the generator of a stream records a CompletionEvent only when it
\* pulls a finish-marked fragment: while none was pulled, be the stream
\* exhausted or left by the caller, it recorded none, and every fragment
\* pulled so far was yielded.
C10_NoFinishNoCompletion ==
  \A c \in Calls :
    Streamed(c) =>
      /\ NumFinish(produced[c]) = 0 => NumLLM(c) = 0
      /\ NumLLM(c) > 0 =>
           \E i \in DOMAIN yielded[c] : FinishMarked(produced[c][i])
      /\ Len(yielded[c]) = Len(produced[c])

\* An exhausted stream of several fragments none of which was finish-marked.
C10_Witness ==
  \E c \in Calls :
    /\ Returned(c) /\ Streamed(c)
    /\ Len(yielded[c]) >= 2
    /\ NumFinish(produced[c]) = 0
    /\ NumLLM(c) = 0

\* ---------------------------------------------------------------- claims, replay
LogBy(lv, c) == { i \in DOMAIN log : log[i].level = lv /\ log[i].by = c }

\* C11: a replay hit whose payload parses as neither shape, on either
\* wrapper: the call returns None, the original entry point is not invoked,
\* the reconstructor does not run (no event is created, nothing reaches the
\* sink) and exactly one error diagnostic is logged.
C11_InvalidReplayFailsClosed ==
  \A c \in Calls :
    (pc[c] # "idle" /\ lookup[c].shape = "neither") =>
      /\ pc[c] = "done"
      /\ ret[c] = NoneRet
      /\ origCalls[c] = 0
      /\ result[c] = NoResponse
      /\ events[c] = NoEvent
      /\ NumLLM(c) + NumErr(c) = 0
      /\ Cardinality(LogBy("error", c)) = 1
      /\ Cardinality({ i \in DOMAIN log : log[i].by = c }) = 1

\* An awaitable call that hit an unparseable payload and returned None.
C11_Witness ==
  \E c \in Calls :
    /\ kind[c] = "async" /\ lookup[c].shape = "neither"
    /\ pc[c] = "done" /\ ret[c] = NoneRet
    /\ Cardinality(LogBy("error", c)) = 1

\* What the non-streamed live path does with a response of given content
\* under given parameters: the extraction, the record, the returned value.
LiveEvent(c) ==
  LET ev0 == LLMEvent(get_ISO_time, kwargs[c])
  IN IF session[c] # None THEN [ev0 EXCEPT !.session_id = session[c]] ELSE ev0
LiveOutcome(c, us, ch) ==
  ExtractResponse(LiveEvent(c), Response("ChatCompletion", us, ch, c), c,
                  kwargs[c])

\* C12: a replay hit whose payload parses as a full completion never invokes
\* the original entry point, and what it sends to the sink and returns is
\* what the non-streamed live path sends and returns for a live response of
\* the same content under the same parameters.
C12_ReplayEqualsLive ==
  \A c \in Calls :
    (pc[c] # "idle" /\ lookup[c].shape = "completion"
       /\ Has(kwargs[c], "messages")) =>
      LET x == LiveOutcome(c, lookup[c].usage, lookup[c].choices)
          sent == RecordResponse(<<>>, x, c, session[c])
      IN /\ pc[c] = "done"
         /\ origCalls[c] = 0
         /\ result[c] = Response("ChatCompletion", lookup[c].usage,
                                 lookup[c].choices, c)
         /\ ret[c] = ReturnedResponse(x.exc, c)
         /\ NumLLM(c) + NumErr(c) = 1
         /\ \A j \in DOMAIN sink : sink[j].by = c => sink[j] = sent[1]
         /\ \A b \in Calls :
              (lookup[b] = NoPayload /\ NonStreamed(b)
                 /\ result[b].usage = lookup[c].usage
                 /\ result[b].choices = lookup[c].choices) =>
                /\ NumLLM(b) = NumLLM(c) /\ NumErr(b) = NumErr(c)
                /\ ret[b].t = ret[c].t

\* A replayed full completion recorded as one CompletionEvent, the original
\* never invoked.
C12_Witness ==
  \E c \in Calls :
    /\ lookup[c] = Payload("completion", TRUE, 1)
    /\ Has(kwargs[c], "messages")
    /\ origCalls[c] = 0 /\ NumLLM(c) = 1 /\ ret[c] = RespRef(c)

\* C13: a replay hit whose payload parses as a stream chunk only returns the
\* validated ChatCompletionChunk object to the caller.
C13_ChunkReplayReturnsChunk ==
  \A c \in Calls :
    (pc[c] = "done" /\ lookup[c] = Payload("chunk", TRUE, 1)
       /\ Has(kwargs[c], "messages")) =>
      /\ result[c].type = "ChatCompletionChunk"
      /\ ret[c] = RespRef(c)

\* ---------------------------------------------------------------- claims, lifecycle
LastOp(n) == history[Len(history) - n]

\* C14: override() from the un-instrumented state replaces both entry points
\* by wrappers, and undo_override() right after it puts back exactly the two
\* original entry points.
C14_InstallUninstallRoundTrip ==
  /\ (Len(history) >= 1 /\ LastOp(0).op = "override") =>
       /\ create = Patched("sync", NumOverrides)
       /\ create_async = Patched("async", NumOverrides)
  /\ (Len(history) >= 2 /\ LastOp(0).op = "undo_override"
        /\ LastOp(1).op = "override" /\ LastOp(1).clean) =>
       /\ create = OriginalCreate
       /\ create_async = OriginalCreateAsync

\* One install and one uninstall, the entry points back to the originals.
C14_Witness ==
  /\ Len(history) = 2
  /\ history[1] = [op |-> "override", clean |-> TRUE]
  /\ history[2].op = "undo_override"
  /\ Uninstrumented

\* C15: after any number of override() calls the saved references are the
\* pre-install entry points, never a wrapper, and one undo_override() after
\* them restores both originals.
C15_ReinstallKeepsOriginals ==
  /\ (Len(history) >= 1 /\ \A i \in DOMAIN history : history[i].op = "override") =>
       /\ original_create = OriginalCreate
       /\ original_create_async = OriginalCreateAsync
  /\ (Len(history) >= 2 /\ LastOp(0).op = "undo_override"
        /\ \A i \in 1..(Len(history) - 1) : history[i].op = "override") =>
       Uninstrumented

\* C20: whatever override() and undo_override() calls were made, an
\* undo_override() with no override() before it included, each of the two
\* entry points is a callable, the original or a wrapper, never None.
C20_EntryPointsNeverAbsent ==
  /\ create.t \in {"original", "patched"}
  /\ create_async.t \in {"original", "patched"}

\* ---------------------------------------------------------------- claims, events
\* C16: a stream hands its CompletionEvent to the sink at most once, and no
\* later fragment of that stream changes the event's fields after that.
C16_FinalizedOnceThenFrozen ==
  \A c \in Calls :
    (ncalls = 1 /\ Streamed(c)) =>
      /\ NumLLM(c) <= 1
      /\ \A j \in EntriesBy("LLMEvent", c) : events[sink[j].event] = sink[j].snap

\* C17: every CompletionEvent in the sink was finalized when it was handed
\* over: its end timestamp and its completion payload were set, on the
\* streaming and on the non-streaming path.
C17_RecordedEventsFinalized ==
  \A j \in DOMAIN sink :
    sink[j].kind = "LLMEvent" =>
      /\ sink[j].snap.completion # NoCompletion
      /\ sink[j].snap.end_timestamp # None

\* The parameters the caller supplied other than the session.
CallerParams(c) == { p \in callerKw[c] : p[1] # "session" }

\* C18: on either wrapper, session passed or not, the replay lookup, the
\* original entry point and the event's recorded parameters get the
\* caller's parameters without the session key and otherwise unchanged.
C18_SessionStrippedEverywhere ==
  \A c \in Calls :
    pc[c] # "idle" =>
      /\ lookupArgs[c] = CallerParams(c)
      /\ kwargs[c] = CallerParams(c)
      /\ origCalls[c] > 0 => origArgs[c] = CallerParams(c)
      /\ events[c] # NoEvent => events[c].params = CallerParams(c)
      /\ \A j \in DOMAIN sink :
           sink[j].event = c => sink[j].snap.params = CallerParams(c)

\* A call that passed a session, reached the original entry point and
\* recorded its event.
C18_Witness ==
  \E c \in Calls :
    /\ Has(callerKw[c], "session") /\ Has(callerKw[c], "messages")
    /\ origCalls[c] = 1
    /\ NumLLM(c) = 1

\* C19: a stream whose first fragment is the only malformed one and whose
\* last fragment is the only finish-marked one records one ErrorEvent, for
\* the first fragment, and is still finalized by the last.
C19_FirstFragmentFaultIsolated ==
  \A c \in Calls :
    (ncalls = 1 /\ Returned(c) /\ Streamed(c)
       /\ Len(produced[c]) >= 2
       /\ produced[c][1].choices = 0
       /\ WellFormed(Tail(produced[c]))) =>
      /\ NumErr(c) = 1
      /\ NumLLM(c) = 1

====
